---- MODULE Spec2Model ----
\* Model of flightgear_build.py: the six checkout reconcilers (the download_
\* functions), select_git_branch, the chdir context manager, the five build
\* functions and the __main__ driver.
\*
\* Every external command (run -> subprocess.check_call) is one step with a
\* nondeterministic exit status.  The filesystem is reduced to what the
\* script inspects and changes: each reconciler's target directory, the
\* siblings <target>.<int(time.time())> it renames to, <install>/lib and the
\* launcher stubs.
EXTENDS Integers, Sequences, FiniteSets, TLC

\* ---- bounds of the model ------------------------------------------------
\* The clock int(time.time()) takes the values 0..MaxTime.
MaxTime == 2
\* Number of reconciler calls made on one target path under SpecRec.
MaxCalls == 3

\* ---- constants of the script --------------------------------------------
PLIB_REPO == "http://plib.svn.sourceforge.net/svnroot/plib/trunk"
PLIB_STABLE_REVISION == "2172"
OSG_STABLE_REVISION == "http://svn.openscenegraph.org/osg/OpenSceneGraph/tags/OpenSceneGraph-3.1.1/"
OSG_UNSTABLE_REVISION == "http://svn.openscenegraph.org/osg/OpenSceneGraph/tags/OpenSceneGraph-3.1.7/"
OPENRTI_REPO == "git://gitorious.org/openrti/openrti.git"
OPENRTI_UNSTABLE == "master"
OPENRTI_STABLE == "OpenRTI-0.3.0"
SIMGEAR_REPO == "git://gitorious.org/fg/simgear.git"
SIMGEAR_STABLE == "version/2.10.0-final"
SIMGEAR_UNSTABLE == "remotes/origin/next"
FGFS_STABLE == "version/2.10.0-final"
FGFS_REPO == "git://gitorious.org/fg/flightgear.git"
FGFS_DATA_STABLE == "version/2.10.0-final"
FGFS_DATA_REPO == "git://gitorious.org/fg/fgdata.git"

\* The reconcilers, by the component each one serves.
SvnComps == {"plib", "osg"}
GitComps == {"openrti", "simgear", "fgfs", "fgdata"}
Comps == SvnComps \cup GitComps

\* The metadata directory each reconciler looks for with os.path.exists.
Marker(c) == IF c \in SvnComps THEN ".svn" ELSE ".git"

\* The repository a fresh clone/checkout of component c is made from.
Repo(c, stable) ==
  CASE c = "plib"    -> PLIB_REPO
    [] c = "osg"     -> (IF stable THEN OSG_STABLE_REVISION ELSE OSG_UNSTABLE_REVISION)
    [] c = "openrti" -> OPENRTI_REPO
    [] c = "simgear" -> SIMGEAR_REPO
    [] c = "fgfs"    -> FGFS_REPO
    [] c = "fgdata"  -> FGFS_DATA_REPO

\* git_branch of the four git reconcilers.
git_branch(c, stable) ==
  CASE c = "openrti" -> (IF stable THEN OPENRTI_STABLE ELSE OPENRTI_UNSTABLE)
    [] c = "simgear" -> (IF stable THEN SIMGEAR_STABLE ELSE SIMGEAR_UNSTABLE)
    [] c = "fgfs"    -> (IF stable THEN FGFS_STABLE ELSE "master")
    [] c = "fgdata"  -> (IF stable THEN FGFS_DATA_STABLE ELSE "master")

\* plib_revision of build_plib: None (the latest revision) is "HEAD".
plib_revision(stable) == IF stable THEN PLIB_STABLE_REVISION ELSE "HEAD"

\* ---- directories ----------------------------------------------------------
\* A path of the filesystem: absent, or a directory with
\*   marker  the version-control metadata directory it holds ("none": none),
\*   url     the repository the working copy is bound to,
\*   pos     the revision / branch / tag the working tree is positioned at,
\*   files   "empty" (no entry at all), "user" (unrelated files), "tree" (a
\*           checked-out tree), "modified" (a tree with local changes),
\*           "partial" (what an interrupted clone/checkout left).
Absent == [ex |-> FALSE, marker |-> "", url |-> "", pos |-> "", files |-> ""]
PlainDir(f) == [ex |-> TRUE, marker |-> "none", url |-> "", pos |-> "", files |-> f]
WorkingCopy(m, u, p, f) == [ex |-> TRUE, marker |-> m, url |-> u, pos |-> p, files |-> f]

\* os.path.exists(dir)
exists(d) == d.ex
\* os.path.exists(os.path.join(dir, marker))
has_marker(d, m) == d.ex /\ d.marker = m
\* A directory without any entry: the only destination os.rename replaces.
IsEmptyDir(d) == d.ex /\ d.marker = "none" /\ d.files = "empty"

\* The position the reconciler of c is asked for by (stable).
RequestedPos(c, stable) ==
  CASE c = "plib" -> plib_revision(stable)
    [] c = "osg"  -> "HEAD"
    [] OTHER      -> git_branch(c, stable)

\* Directory d is a checkout of the expected tool positioned at the revision
\* requested by (c, stable).
AtRequested(c, stable, d) ==
  /\ has_marker(d, Marker(c))
  /\ d.url = Repo(c, stable)
  /\ d.pos = RequestedPos(c, stable)
  /\ d.files \in {"tree", "modified"}

\* The states a target path can be in when a reconciler is entered:
\* absent; present-invalid (empty, unrelated files, a checkout of the other
\* tool); present-valid at the stable or the unstable revision, clean or
\* locally modified.
OtherMarker(c) == IF c \in SvnComps THEN ".git" ELSE ".svn"
InitDirs(c) ==
  {Absent, PlainDir("empty"), PlainDir("user"),
   WorkingCopy(OtherMarker(c), "elsewhere", "HEAD", "tree"),
   WorkingCopy(Marker(c), Repo(c, TRUE), RequestedPos(c, TRUE), "tree"),
   WorkingCopy(Marker(c), Repo(c, FALSE), RequestedPos(c, FALSE), "tree"),
   WorkingCopy(Marker(c), Repo(c, TRUE), RequestedPos(c, TRUE), "modified")}

VARIABLES
  fs,         \* [Comps -> directory]: the target path of each reconciler
  aside,      \* [Comps -> [0..MaxTime -> directory]]: the paths <target>.<t>
  now,        \* int(time.time())
  pc,         \* position of the script
  call,       \* [comp, stable, update]: arguments of the reconciler call
  need_move,  \* local of the git reconcilers
  log,        \* the commands and renames issued, in order, with their outcome
  raised,     \* the exception that ended the call or the run ("none": none)
  cwd,        \* os.getcwd()
  olddir,     \* chdir.olddir of the innermost with-block
  entry,      \* the target path and its siblings when the reconciler was entered
  calls,      \* reconciler calls made so far (SpecRec)
  stack,      \* callers of the running function, innermost first
  cfg,        \* [stable, update, reconfigure]: arguments of the build function
  inst,       \* the install root: [lib, lib64, stubs]
  cache,      \* [Comps -> [src, build]]: is there a CMakeCache.txt in the
              \* source directory, in the build directory
  SUDO_METHOD,   \* the module global of sudo()
  release_info,  \* local of install_packages: what identify_distro returned
  warned      \* install_packages logged "Your distribution is not supported!"

vars == <<fs, aside, now, pc, call, need_move, log, raised, cwd, olddir, entry,
          calls, stack, cfg, inst, cache, SUDO_METHOD, release_info, warned>>

\* The state of sudo() and install_packages().
pkgvars == <<SUDO_METHOD, release_info, warned>>

\* The path of the target directory of component c.
TargetPath(c) == IF c = "fgdata" THEN "install/fgdata" ELSE "build/src/" \o c

NoSiblings == [t \in 0..MaxTime |-> Absent]

\* No CMakeCache.txt anywhere.
NoCache == [c \in Comps |-> [src |-> FALSE, build |-> FALSE]]

\* identify_distro returned nothing (its fall-through "pass").
None == <<>>

\* The call that the running reconciler call repeats: how it ended ("idle":
\* the running call repeats none) and its arguments.
NoCall == [status |-> "idle", raised |-> "none", stable |-> TRUE, update |-> TRUE]

\* The siblings of a target path when a reconciler is first called: none, or
\* the directory <target>.<now> that a relocation earlier in the current
\* clock second left (an empty one, or one with content).
InitSiblings ==
  {NoSiblings} \cup {[NoSiblings EXCEPT ![0] = d] : d \in {PlainDir("empty"), PlainDir("user")}}

\* The launcher stubs build_fgfs writes under the install root, none written.
Stubs == {"run_fgfs", "run_fgfs_debug", "run_terrasync"}
NoStubs == [f \in Stubs |-> "absent"]

\* ---- external tools and the filesystem ------------------------------------
\* What each command leaves at the path it works on, by its exit status (ok).
\* A failing command is not rolled back: an interrupted svn update may leave
\* a mixed-revision working copy, an interrupted clone/checkout either
\* nothing or a partial copy that already holds the metadata directory.
svn_update_result(d, rev, ok) ==
  IF ok
    THEN {[d EXCEPT !.pos = rev,
                    !.files = IF d.files = "partial" THEN "tree" ELSE d.files]}
    ELSE {d, [d EXCEPT !.pos = "mixed"]}

\* svn_checkout_result with the -r option dropped: the newest revision is
\* checked out whatever was asked for.
svn_checkout_latest(url, rev, ok) ==
  IF ok THEN {WorkingCopy(".svn", url, "HEAD", "tree")}
        ELSE {Absent, WorkingCopy(".svn", url, "partial", "partial")}

svn_checkout_result(url, rev, ok) ==
  IF ok THEN {WorkingCopy(".svn", url, rev, "tree")}
        ELSE {Absent, WorkingCopy(".svn", url, "partial", "partial")}

git_clone_result(url, ok) ==
  IF ok THEN {WorkingCopy(".git", url, "origin/HEAD", "tree")}
        ELSE {Absent, WorkingCopy(".git", url, "partial", "partial")}

git_checkout_result(d, branch, ok) ==
  IF ok THEN [d EXCEPT !.pos = branch, !.files = "tree"] ELSE d

git_reset_result(d, ok) ==
  IF ok THEN [d EXCEPT !.files = "tree"] ELSE d

\* The exit statuses a git command can have in directory d: it fails where
\* there is no repository.
git_status(d) == IF has_marker(d, ".git") THEN BOOLEAN ELSE {FALSE}

\* os.rename(src, dst) of a directory: dst is replaced when it is absent or
\* an empty directory, OSError otherwise.
rename_ok(dst) == ~exists(dst) \/ IsEmptyDir(dst)

\* check_call replaced by subprocess.call: the exit status is dropped.
call_unchecked(ok) == TRUE

\* run(): subprocess.check_call returns on exit status 0 and raises
\* CalledProcessError otherwise.
check_call(ok) == ok

\* An entry of the log of issued operations.
Cmd(name, arg, ok) == [comp |-> call.comp, cmd |-> name, arg |-> arg, ok |-> ok]

\* An uncaught exception: it unwinds every frame and ends the call (the run).
Raise(kind) == pc' = "failed" /\ raised' = kind

\* Where a reconciler returns to: its build function, or its direct caller.
RetPc == IF stack = <<>> THEN "done" ELSE "reconfigure"

\* ---- the reconcilers --------------------------------------------------------
\* download_plib, up to the first command: which branch is taken.
download_plib ==
  /\ pc = "download" /\ call.comp = "plib"
  /\ IF exists(fs["plib"])
       THEN IF call.update /\ has_marker(fs["plib"], ".svn")
              THEN \* with chdir(plib_source_dir)
                   /\ pc' = "svn_update"
                   /\ olddir' = cwd /\ cwd' = TargetPath("plib")
              ELSE /\ pc' = "rename"
                   /\ UNCHANGED <<cwd, olddir>>
       ELSE /\ pc' = "checkout"
            /\ UNCHANGED <<cwd, olddir>>
  /\ UNCHANGED <<fs, aside, now, call, need_move, log, raised, entry, calls, stack, cfg, inst>>
  /\ UNCHANGED <<cache, pkgvars>>

\* download_openscenegraph that checks out over a directory it cannot update,
\* without moving it.
download_openscenegraph_over ==
  /\ pc = "download" /\ call.comp = "osg"
  /\ IF exists(fs["osg"]) /\ call.update /\ has_marker(fs["osg"], ".svn")
       THEN /\ pc' = "svn_update"
            /\ olddir' = cwd /\ cwd' = TargetPath("osg")
       ELSE /\ pc' = "checkout"
            /\ UNCHANGED <<cwd, olddir>>
  /\ UNCHANGED <<fs, aside, now, call, need_move, log, raised, entry, calls, stack, cfg, inst>>
  /\ UNCHANGED <<cache, pkgvars>>

\* download_openscenegraph, up to the first command.
download_openscenegraph ==
  /\ pc = "download" /\ call.comp = "osg"
  /\ IF exists(fs["osg"])
       THEN IF call.update /\ has_marker(fs["osg"], ".svn")
              THEN /\ pc' = "svn_update"
                   /\ olddir' = cwd /\ cwd' = TargetPath("osg")
              ELSE /\ pc' = "rename"
                   /\ UNCHANGED <<cwd, olddir>>
       ELSE /\ pc' = "checkout"
            /\ UNCHANGED <<cwd, olddir>>
  /\ UNCHANGED <<fs, aside, now, call, need_move, log, raised, entry, calls, stack, cfg, inst>>
  /\ UNCHANGED <<cache, pkgvars>>

\* need_move that is set for every existing directory.
git_need_move_always(d, update) ==
  exists(d)

\* need_move without the update test: only a directory that lacks .git moves.
git_need_move_invalid_only(d, update) ==
  exists(d) /\ ~has_marker(d, ".git")

\* need_move as the four git reconcilers compute it.
git_need_move(d, update) ==
  exists(d) /\ (~update \/ ~has_marker(d, ".git"))

\* A git reconciler (download_openrti, download_simgear, download_fgfs,
\* download_fgdata: the same text but for the constants), up to the rename
\* or the first command.
download_git(c) ==
  /\ pc = "download" /\ call.comp = c
  /\ need_move' = git_need_move(fs[c], call.update)
  /\ pc' = IF need_move' THEN "rename"
           ELSE IF ~exists(fs[c]) THEN "clone" ELSE "select"
  /\ UNCHANGED <<fs, aside, now, call, log, raised, cwd, olddir, entry, calls, stack, cfg, inst>>
  /\ UNCHANGED <<cache, pkgvars>>

download_openrti == download_git("openrti")
download_simgear == download_git("simgear")
download_fgfs == download_git("fgfs")
download_fgdata == download_git("fgdata")

\* os_rename replaced by a removal of the old directory (shutil.rmtree).
os_rmtree ==
  /\ pc = "rename"
  /\ LET c == call.comp IN
       /\ fs' = [fs EXCEPT ![c] = Absent]
       /\ log' = Append(log, Cmd("os.rename", ToString(now), TRUE))
       /\ pc' = IF c \in SvnComps THEN "checkout" ELSE "clone"
  /\ UNCHANGED <<aside, raised, now, call, need_move, cwd, olddir, entry, calls, stack, cfg, inst>>
  /\ UNCHANGED pkgvars
  /\ cache' = [cache EXCEPT ![call.comp].src = FALSE]

\* tmp_name = "{}.{}".format(dir, int(time.time())); os.rename(dir, tmp_name)
os_rename ==
  /\ pc = "rename"
  /\ LET c == call.comp IN
     IF rename_ok(aside[c][now])
       THEN /\ aside' = [aside EXCEPT ![c][now] = fs[c]]
            /\ fs' = [fs EXCEPT ![c] = Absent]
            /\ log' = Append(log, Cmd("os.rename", ToString(now), TRUE))
            /\ pc' = IF c \in SvnComps THEN "checkout" ELSE "clone"
            /\ cache' = [cache EXCEPT ![c].src = FALSE]
            /\ UNCHANGED raised
       ELSE /\ log' = Append(log, Cmd("os.rename", ToString(now), FALSE))
            /\ Raise("OSError")
            /\ UNCHANGED <<fs, aside, cache>>
  /\ UNCHANGED <<now, call, need_move, cwd, olddir, entry, calls, stack, cfg, inst>>
  /\ UNCHANGED pkgvars

\* run('svn', 'update', ['-r', revision]) inside with chdir(source_dir)
svn_update ==
  /\ pc = "svn_update"
  /\ LET c == call.comp
         rev == IF c = "plib" THEN plib_revision(call.stable) ELSE "HEAD"
     IN \E ok \in BOOLEAN : \E d \in svn_update_result(fs[c], rev, ok) :
          /\ fs' = [fs EXCEPT ![c] = d]
          /\ log' = Append(log, Cmd("svn update", rev, ok))
          /\ IF check_call(ok) THEN pc' = RetPc /\ UNCHANGED raised
                               ELSE Raise("CalledProcessError")
  /\ cwd' = olddir
  /\ UNCHANGED <<aside, now, call, need_move, olddir, entry, calls, stack, cfg, inst>>
  /\ UNCHANGED <<cache, pkgvars>>

\* run('svn', ['-r', revision], 'checkout', url, source_dir)
svn_checkout ==
  /\ pc = "checkout"
  /\ LET c == call.comp
         rev == IF c = "plib" THEN plib_revision(call.stable) ELSE "HEAD"
     IN \E ok \in BOOLEAN : \E d \in svn_checkout_result(Repo(c, call.stable), rev, ok) :
          /\ fs' = [fs EXCEPT ![c] = d]
          /\ log' = Append(log, Cmd("svn checkout", rev, ok))
          /\ IF check_call(ok) THEN pc' = RetPc /\ UNCHANGED raised
                               ELSE Raise("CalledProcessError")
  /\ UNCHANGED <<aside, now, call, need_move, cwd, olddir, entry, calls, stack, cfg, inst>>
  /\ UNCHANGED <<cache, pkgvars>>

\* if not os.path.exists(source_dir): run('git', 'clone', REPO, source_dir)
git_clone ==
  /\ pc = "clone"
  /\ LET c == call.comp
     IN \E ok \in BOOLEAN : \E d \in git_clone_result(Repo(c, call.stable), ok) :
          /\ fs' = [fs EXCEPT ![c] = d]
          /\ log' = Append(log, Cmd("git clone", Repo(c, call.stable), ok))
          /\ IF check_call(ok) THEN pc' = "select" /\ UNCHANGED raised
                               ELSE Raise("CalledProcessError")
  /\ UNCHANGED <<aside, now, call, need_move, cwd, olddir, entry, calls, stack, cfg, inst>>
  /\ UNCHANGED <<cache, pkgvars>>

\* select_git_branch: with chdir(repo_dir); chdir.__enter__ makes the
\* directory when it does not exist.
select_git_branch ==
  /\ pc = "select"
  /\ LET c == call.comp IN
       /\ olddir' = cwd
       /\ fs' = IF exists(fs[c]) THEN fs ELSE [fs EXCEPT ![c] = PlainDir("empty")]
       /\ cwd' = TargetPath(c)
  /\ pc' = "fetch"
  /\ UNCHANGED <<aside, now, call, need_move, log, raised, entry, calls, stack, cfg, inst>>
  /\ UNCHANGED <<cache, pkgvars>>

\* git_fetch with its failure swallowed: the checkout follows in any case.
git_fetch_swallowed ==
  /\ pc = "fetch"
  /\ \E ok \in git_status(fs[call.comp]) :
       log' = Append(log, Cmd("git fetch", "", ok))
  /\ pc' = "git_checkout"
  /\ UNCHANGED <<fs, aside, now, call, need_move, raised, cwd, olddir, entry, calls, stack, cfg, inst>>
  /\ UNCHANGED <<cache, pkgvars>>

\* run('git', 'fetch')
git_fetch ==
  /\ pc = "fetch"
  /\ \E ok \in git_status(fs[call.comp]) :
       /\ log' = Append(log, Cmd("git fetch", "", ok))
       /\ IF check_call(ok) THEN pc' = "git_checkout" /\ UNCHANGED <<raised, cwd>>
                            ELSE Raise("CalledProcessError") /\ cwd' = olddir
  /\ UNCHANGED <<fs, aside, now, call, need_move, olddir, entry, calls, stack, cfg, inst>>
  /\ UNCHANGED <<cache, pkgvars>>

\* run('git', 'checkout', '--force', branch)
git_checkout ==
  /\ pc = "git_checkout"
  /\ LET c == call.comp
         branch == git_branch(c, call.stable)
     IN \E ok \in git_status(fs[c]) :
          /\ fs' = [fs EXCEPT ![c] = git_checkout_result(fs[c], branch, ok)]
          /\ log' = Append(log, Cmd("git checkout --force", branch, ok))
          /\ IF check_call(ok) THEN pc' = "reset" /\ UNCHANGED <<raised, cwd>>
                               ELSE Raise("CalledProcessError") /\ cwd' = olddir
  /\ UNCHANGED <<aside, now, call, need_move, olddir, entry, calls, stack, cfg, inst>>
  /\ UNCHANGED <<cache, pkgvars>>

\* run('git', 'reset', '--hard'), then chdir.__exit__
git_reset ==
  /\ pc = "reset"
  /\ LET c == call.comp
     IN \E ok \in git_status(fs[c]) :
          /\ fs' = [fs EXCEPT ![c] = git_reset_result(fs[c], ok)]
          /\ log' = Append(log, Cmd("git reset --hard", "", ok))
          /\ IF check_call(ok) THEN pc' = RetPc /\ UNCHANGED raised
                               ELSE Raise("CalledProcessError")
  /\ cwd' = olddir
  /\ UNCHANGED <<aside, now, call, need_move, olddir, entry, calls, stack, cfg, inst>>
  /\ UNCHANGED <<cache, pkgvars>>

\* int(time.time()) advances between any two steps.
Tick ==
  /\ now < MaxTime
  /\ now' = now + 1
  /\ UNCHANGED <<fs, aside, pc, call, need_move, log, raised, cwd, olddir, entry,
                 calls, stack, cfg, inst>>
  /\ UNCHANGED <<cache, pkgvars>>

\* ---- SpecRec: reconciler calls on one target path ---------------------------
\* One reconciler is called up to MaxCalls times on its target path, each
\* time with any (stable, update), from any state of the path and of its
\* siblings.
InitRec ==
  /\ \E c \in Comps :
       /\ \E d \in InitDirs(c) : fs = [x \in Comps |-> IF x = c THEN d ELSE Absent]
       /\ call = [comp |-> c, stable |-> TRUE, update |-> TRUE]
       /\ \E s \in InitSiblings :
            aside = [x \in Comps |-> IF x = c THEN s ELSE NoSiblings]
  /\ now = 0
  /\ pc = "idle"
  /\ need_move = FALSE
  /\ log = <<>>
  /\ raised = "none"
  /\ cwd = "."
  /\ olddir = "."
  /\ entry = [dir |-> Absent, aside |-> NoSiblings, prev |-> NoCall, cwd |-> cwd]
  /\ calls = 0
  /\ stack = <<>>
  /\ cfg = [stable |-> TRUE, update |-> TRUE, reconfigure |-> TRUE]
  /\ inst = [lib |-> "absent", lib64 |-> FALSE, stubs |-> NoStubs]
  /\ cache = NoCache
  /\ SUDO_METHOD = "auto"
  /\ release_info = None
  /\ warned = FALSE

\* download_<comp>(target, stable=stable, update=update)
Call ==
  /\ pc \in {"idle", "done", "failed"}
  /\ calls < MaxCalls
  /\ \E stable \in BOOLEAN, update \in BOOLEAN :
       call' = [call EXCEPT !.stable = stable, !.update = update]
  /\ pc' = "download"
  /\ need_move' = FALSE
  /\ log' = <<>>
  /\ raised' = "none"
  /\ entry' = [dir |-> fs[call.comp], aside |-> aside[call.comp], prev |-> NoCall,
                cwd |-> cwd]
  /\ calls' = calls + 1
  /\ UNCHANGED <<fs, aside, now, cwd, olddir, stack, cfg, inst>>
  /\ UNCHANGED <<cache, pkgvars>>

Reconcile ==
  \/ download_plib \/ download_openscenegraph
  \/ download_openrti \/ download_simgear \/ download_fgfs
  \/ os_rename \/ svn_update \/ svn_checkout
  \/ git_clone \/ select_git_branch \/ git_fetch \/ git_checkout \/ git_reset

NextRec == Call \/ Reconcile \/ download_fgdata \/ Tick

SpecRec == InitRec /\ [][NextRec]_vars

\* ---- a call and its re-runs ---------------------------------------------------
\* The first call of a behaviour: download_<comp>(target, stable=..., update=...)
FirstCall == pc = "idle" /\ Call

\* The same call made again once it has returned or raised, with the same
\* revision and update allowed: download_<comp>(target, stable=stable, update=True)
Rerun ==
  /\ pc \in {"done", "failed"}
  /\ calls < MaxCalls
  /\ call' = [call EXCEPT !.update = TRUE]
  /\ pc' = "download"
  /\ need_move' = FALSE
  /\ log' = <<>>
  /\ raised' = "none"
  /\ entry' = [dir |-> fs[call.comp], aside |-> aside[call.comp],
                prev |-> [status |-> pc, raised |-> raised,
                          stable |-> call.stable, update |-> call.update],
                cwd |-> cwd]
  /\ calls' = calls + 1
  /\ UNCHANGED <<fs, aside, now, cwd, olddir, stack, cfg, inst>>
  /\ UNCHANGED <<cache, pkgvars>>

NextRerun == FirstCall \/ Rerun \/ Reconcile \/ download_fgdata \/ Tick

SpecRerun == InitRec /\ [][NextRerun]_vars

\* ---- the build functions and __main__ ---------------------------------------
BuildPath(c) == "build/build/" \o c

\* MainOrder with OpenSceneGraph and OpenRTI exchanged.
MainOrderExchanged == <<"plib", "openrti", "osg", "simgear", "fgfs">>

\* The order in which __main__ calls the build functions.
MainOrder == <<"plib", "osg", "openrti", "simgear", "fgfs">>

\* Position of __main__ just before it calls build_<c>.
MainPc(c) == "main:" \o c

\* Where a build function returns to: the statement of __main__ after its
\* call, or its direct caller.
AfterBuild(c) ==
  IF Tail(stack) = <<>> THEN "done"
  ELSE LET i == CHOOSE k \in 1..Len(MainOrder) : MainOrder[k] = c
       IN IF i < Len(MainOrder) THEN MainPc(MainOrder[i + 1]) ELSE "exit"

\* A build function up to its reconciler call: download_<c>(source_dir,
\* stable=stable, update=update).
build(c, update) ==
  /\ pc = MainPc(c)
  /\ call' = [comp |-> c, stable |-> cfg.stable, update |-> update]
  /\ stack' = <<"build_" \o c>> \o stack
  /\ need_move' = FALSE
  /\ entry' = [dir |-> fs[c], aside |-> aside[c], prev |-> NoCall, cwd |-> cwd]
  /\ calls' = calls + 1
  /\ pc' = "download"
  /\ UNCHANGED <<fs, aside, now, log, raised, cwd, olddir, cfg, inst>>
  /\ UNCHANGED <<cache, pkgvars>>

\* build_plib calls download_plib(plib_source_dir, revision=plib_revision):
\* update is left at its default, True.
build_plib == build("plib", TRUE)
build_openscenegraph == build("osg", cfg.update)
build_openrti == build("openrti", cfg.update)
build_simgear == build("simgear", cfg.update)
build_fgfs == build("fgfs", cfg.update)

\* if reconfigure: with chdir(...) -- the source directory for PLIB's
\* autogen, the build directory for cmake; else with chdir(build_dir) of make.
reconfigure ==
  /\ pc = "reconfigure"
  /\ LET c == call.comp IN
       IF cfg.reconfigure
         THEN IF c = "plib"
                THEN /\ pc' = "autogen"
                     /\ cwd' = TargetPath(c)
                     /\ fs' = IF exists(fs[c]) THEN fs
                              ELSE [fs EXCEPT ![c] = PlainDir("empty")]
                ELSE /\ pc' = "unlink"
                     /\ cwd' = BuildPath(c)
                     /\ UNCHANGED fs
         ELSE /\ pc' = "make"
              /\ cwd' = BuildPath(c)
              /\ UNCHANGED fs
  /\ olddir' = cwd
  /\ UNCHANGED <<aside, now, call, need_move, log, raised, entry, calls, stack, cfg, inst>>
  /\ UNCHANGED <<cache, pkgvars>>

\* autogen that goes on to make, past configure.
autogen_then_make ==
  /\ pc = "autogen"
  /\ \E ok \in BOOLEAN :
       /\ log' = Append(log, Cmd("./autogen.sh", "", ok))
       /\ IF check_call(ok)
            THEN pc' = "make" /\ cwd' = BuildPath(call.comp) /\ UNCHANGED raised
            ELSE Raise("CalledProcessError") /\ cwd' = olddir
  /\ UNCHANGED <<fs, aside, now, call, need_move, olddir, entry, calls, stack, cfg, inst>>
  /\ UNCHANGED <<cache, pkgvars>>

\* run('./autogen.sh'); then with chdir(plib_build_dir)
autogen ==
  /\ pc = "autogen"
  /\ \E ok \in BOOLEAN :
       /\ log' = Append(log, Cmd("./autogen.sh", "", ok))
       /\ IF check_call(ok)
            THEN pc' = "configure" /\ cwd' = BuildPath(call.comp) /\ UNCHANGED raised
            ELSE Raise("CalledProcessError") /\ cwd' = olddir
  /\ UNCHANGED <<fs, aside, now, call, need_move, olddir, entry, calls, stack, cfg, inst>>
  /\ UNCHANGED <<cache, pkgvars>>

\* run(<source_dir>/configure, ...); then with chdir(plib_build_dir)
configure ==
  /\ pc = "configure"
  /\ \E ok \in BOOLEAN :
       /\ log' = Append(log, Cmd("configure", "", ok))
       /\ IF check_call(ok)
            THEN pc' = "make" /\ UNCHANGED <<raised, cwd>>
            ELSE Raise("CalledProcessError") /\ cwd' = olddir
  /\ UNCHANGED <<fs, aside, now, call, need_move, olddir, entry, calls, stack, cfg, inst>>
  /\ UNCHANGED <<cache, pkgvars>>

\* cmakecache_file = os.path.join(source_dir, 'CMakeCache.txt');
\* if os.path.exists(cmakecache_file): os.unlink(cmakecache_file)
unlink_cache ==
  /\ pc = "unlink"
  /\ cache' = [cache EXCEPT ![call.comp].src = FALSE]
  /\ pc' = "cmake"
  /\ UNCHANGED <<fs, aside, now, call, need_move, log, raised, cwd, olddir, entry,
                 calls, stack, cfg, inst, pkgvars>>

\* run('cmake', ..., source_dir) in the build directory, where a successful
\* cmake leaves its CMakeCache.txt; then with chdir(build_dir)
cmake ==
  /\ pc = "cmake"
  /\ \E ok \in BOOLEAN :
       /\ log' = Append(log, Cmd("cmake", "", ok))
       /\ cache' = IF ok THEN [cache EXCEPT ![call.comp].build = TRUE] ELSE cache
       /\ IF check_call(ok)
            THEN pc' = "make" /\ UNCHANGED <<raised, cwd>>
            ELSE Raise("CalledProcessError") /\ cwd' = olddir
  /\ UNCHANGED <<fs, aside, now, call, need_move, olddir, entry, calls, stack, cfg, inst>>
  /\ UNCHANGED pkgvars

\* make whose failure leaves the process in the build directory.
make_stays ==
  /\ pc = "make"
  /\ \E ok \in BOOLEAN :
       /\ log' = Append(log, Cmd("make", "", ok))
       /\ IF check_call(ok)
            THEN pc' = "install" /\ UNCHANGED <<raised, cwd>>
            ELSE Raise("CalledProcessError") /\ UNCHANGED cwd
  /\ UNCHANGED <<fs, aside, now, call, need_move, olddir, entry, calls, stack, cfg, inst>>
  /\ UNCHANGED <<cache, pkgvars>>

\* run('make', *make_flags)
make ==
  /\ pc = "make"
  /\ \E ok \in BOOLEAN :
       /\ log' = Append(log, Cmd("make", "", ok))
       /\ IF check_call(ok)
            THEN pc' = "install" /\ UNCHANGED <<raised, cwd>>
            ELSE Raise("CalledProcessError") /\ cwd' = olddir
  /\ UNCHANGED <<fs, aside, now, call, need_move, olddir, entry, calls, stack, cfg, inst>>
  /\ UNCHANGED <<cache, pkgvars>>

\* run('make', 'install'), the end of the with-block, and what follows it in
\* the build function: the return (PLIB, OpenRTI, SimGear), the lib symlink
\* (OpenSceneGraph), the launcher stubs (FlightGear).
make_install ==
  /\ pc = "install"
  /\ LET c == call.comp IN
     \E ok \in BOOLEAN :
       /\ log' = Append(log, Cmd("make install", "", ok))
       /\ IF check_call(ok)
            THEN /\ UNCHANGED raised
                 /\ IF c = "osg" THEN pc' = "symlink" /\ UNCHANGED stack
                    ELSE IF c = "fgfs" THEN pc' = "stubs" /\ UNCHANGED stack
                    ELSE pc' = AfterBuild(c) /\ stack' = Tail(stack)
            ELSE Raise("CalledProcessError") /\ UNCHANGED stack
  /\ cwd' = olddir
  /\ UNCHANGED <<fs, aside, now, call, need_move, olddir, entry, calls, cfg, inst>>
  /\ UNCHANGED <<cache, pkgvars>>

\* build_openscenegraph: if not os.path.exists(libdir): os.symlink(lib64, libdir).
\* os.path.exists is False for a broken link, on which os.symlink raises.
symlink ==
  /\ pc = "symlink"
  /\ IF inst.lib \in {"dir", "link"}
       THEN /\ UNCHANGED <<inst, raised>>
            /\ pc' = AfterBuild("osg") /\ stack' = Tail(stack)
       ELSE IF inst.lib = "absent"
         THEN /\ inst' = [inst EXCEPT !.lib = IF inst.lib64 THEN "link" ELSE "broken link"]
              /\ pc' = AfterBuild("osg") /\ stack' = Tail(stack)
              /\ UNCHANGED raised
         ELSE /\ Raise("OSError")
              /\ UNCHANGED <<inst, stack>>
  /\ UNCHANGED <<fs, aside, now, call, need_move, log, cwd, olddir, entry, calls, cfg>>
  /\ UNCHANGED <<cache, pkgvars>>

\* build_fgfs: run_fgfs is written, run_fgfs_debug is opened for writing, and
\* FGFS_RUN_DEBUG_SCRIPT.format(source_dir=...) raises KeyError: the template
\* names {sources_dir}.
write_stubs ==
  /\ pc = "stubs"
  /\ inst' = [inst EXCEPT !.stubs = [NoStubs EXCEPT !["run_fgfs"] = "written",
                                                    !["run_fgfs_debug"] = "empty"]]
  /\ Raise("KeyError")
  /\ UNCHANGED <<fs, aside, now, call, need_move, log, cwd, olddir, entry, calls, stack, cfg>>
  /\ UNCHANGED <<cache, pkgvars>>

Build ==
  \/ build_plib \/ build_openscenegraph \/ build_openrti \/ build_simgear \/ build_fgfs
  \/ reconfigure \/ autogen \/ configure \/ unlink_cache \/ cmake \/ make \/ make_install
  \/ symlink \/ write_stubs

\* ---- SpecRun: one run of __main__ -------------------------------------------
\* The states a source directory can be in when the script is started.
RunDirs(c) ==
  {Absent, PlainDir("user"),
   WorkingCopy(Marker(c), Repo(c, FALSE), RequestedPos(c, FALSE), "tree")}

\* The script after argument parsing: every build function is called with
\* its defaults stable=True, update=True, reconfigure=True.
InitRun ==
  /\ fs \in [Comps -> {Absent, PlainDir("user")} \cup UNION {RunDirs(c) : c \in Comps}]
  /\ \A c \in Comps : fs[c] \in (IF c = "fgdata" THEN {Absent} ELSE RunDirs(c))
  /\ aside = [x \in Comps |-> NoSiblings]
  /\ now = 0
  /\ pc = MainPc(MainOrder[1])
  /\ call = [comp |-> MainOrder[1], stable |-> TRUE, update |-> TRUE]
  /\ need_move = FALSE
  /\ log = <<>>
  /\ raised = "none"
  /\ cwd = "."
  /\ olddir = "."
  /\ entry = [dir |-> Absent, aside |-> NoSiblings, prev |-> NoCall, cwd |-> cwd]
  /\ calls = 0
  /\ stack = <<"main">>
  /\ cfg = [stable |-> TRUE, update |-> TRUE, reconfigure |-> TRUE]
  /\ \E l \in {"absent", "dir", "broken link"} :
       \E l64 \in (IF l = "absent" THEN BOOLEAN ELSE {FALSE}) :
         inst = [lib |-> l, lib64 |-> l64, stubs |-> NoStubs]
  /\ cache = NoCache
  /\ SUDO_METHOD = "auto"
  /\ release_info = None
  /\ warned = FALSE

NextRun == Build \/ Reconcile \/ Tick

SpecRun == InitRun /\ [][NextRun]_vars

\* ---- SpecBuild: one call of one build function -------------------------------
\* The components that have a build function, and those configured by cmake.
BuildComps == {"plib", "osg", "openrti", "simgear", "fgfs"}
CMakeComps == BuildComps \ {"plib"}

\* The working directories the caller of a build function may be in.
StartDirs == {".", "/home/user"}

\* build_<c>(build_dir, install_dir, stable=..., update=..., reconfigure=...)
\* is about to be called by a caller of its own, with any flags, on a source
\* directory in any state; an earlier build may have left a CMakeCache.txt in
\* the source directory (an in-source cmake) or in the build directory.
InitBuild ==
  /\ \E c \in BuildComps :
       /\ \E d \in InitDirs(c) :
            /\ fs = [x \in Comps |-> IF x = c THEN d ELSE Absent]
            /\ \E src \in (IF c \in CMakeComps /\ exists(d) THEN BOOLEAN ELSE {FALSE}),
                  bld \in (IF c \in CMakeComps THEN BOOLEAN ELSE {FALSE}) :
                 cache = [NoCache EXCEPT ![c] = [src |-> src, build |-> bld]]
       /\ pc = MainPc(c)
       /\ call = [comp |-> c, stable |-> TRUE, update |-> TRUE]
       /\ \E l \in (IF c = "osg" THEN {"absent", "dir", "broken link"} ELSE {"absent"}) :
            \E l64 \in (IF c = "osg" /\ l = "absent" THEN BOOLEAN ELSE {FALSE}) :
              inst = [lib |-> l, lib64 |-> l64, stubs |-> NoStubs]
  /\ cfg \in [stable : BOOLEAN, update : BOOLEAN, reconfigure : BOOLEAN]
  /\ aside = [x \in Comps |-> NoSiblings]
  /\ now = 0
  /\ need_move = FALSE
  /\ log = <<>>
  /\ raised = "none"
  /\ cwd \in StartDirs
  /\ olddir = "."
  /\ entry = [dir |-> Absent, aside |-> NoSiblings, prev |-> NoCall, cwd |-> cwd]
  /\ calls = 0
  /\ stack = <<>>
  /\ SUDO_METHOD = "auto"
  /\ release_info = None
  /\ warned = FALSE

NextBuild == Build \/ Reconcile \/ Tick

SpecBuild == InitBuild /\ [][NextBuild]_vars

\* ---- SpecPkg: install_packages and sudo ---------------------------------------
SUPPORTED_DISTROS == {<<"Debian", "7.0", "wheezy">>, <<"Debian", "7.1", "wheezy">>}

\* The values --sudo-method accepts.
SudoMethods == {"auto", "sudo", "su", "ssh"}

\* What identify_distro can return: the (distro, release, codename) that
\* lsb_release printed, or None when one of its three runs failed.
identify_distro ==
  SUPPORTED_DISTROS
    \cup {<<"Debian", "6.0", "squeeze">>, <<"Ubuntu", "12.04", "precise">>}
    \cup {None}

\* packages = UBUNTU_PACKAGES if release_info.distro == 'Ubuntu', else
\* DEBIAN_PACKAGES.
packages == IF release_info[1] = "Ubuntu" THEN "UBUNTU_PACKAGES" ELSE "DEBIAN_PACKAGES"

\* What sudo() puts before the command, by method.
Wrapper(method) ==
  CASE method = "sudo" -> "sudo "
    [] method = "su" -> "su -c "
    [] method = "ssh" -> "ssh root@localhost "

\* The state after argument parsing (SUDO_METHOD = args.sudo_method), before
\* install_packages is called.
InitPkg ==
  /\ SUDO_METHOD \in SudoMethods
  /\ release_info = None
  /\ warned = FALSE
  /\ pc = "idle"
  /\ call = [comp |-> "packages", stable |-> TRUE, update |-> TRUE]
  /\ fs = [x \in Comps |-> Absent]
  /\ aside = [x \in Comps |-> NoSiblings]
  /\ now = 0
  /\ need_move = FALSE
  /\ log = <<>>
  /\ raised = "none"
  /\ cwd = "."
  /\ olddir = "."
  /\ entry = [dir |-> Absent, aside |-> NoSiblings, prev |-> NoCall, cwd |-> cwd]
  /\ calls = 0
  /\ stack = <<>>
  /\ cfg = [stable |-> TRUE, update |-> TRUE, reconfigure |-> TRUE]
  /\ inst = [lib |-> "absent", lib64 |-> FALSE, stubs |-> NoStubs]
  /\ cache = NoCache

\* What no action of install_packages and sudo touches.
buildvars == <<fs, aside, now, call, need_move, cwd, olddir, entry, stack, cfg, inst, cache>>

\* install_packages(): release_info = identify_distro()
install_packages ==
  /\ pc \in {"idle", "done", "failed"}
  /\ calls < MaxCalls
  /\ release_info' \in identify_distro
  /\ warned' = FALSE
  /\ log' = <<>>
  /\ raised' = "none"
  /\ calls' = calls + 1
  /\ pc' = "format_release"
  /\ UNCHANGED <<SUDO_METHOD, buildvars>>

\* logger.debug("Release: {} {} {}".format(*release_info)): with None the
\* argument list cannot be unpacked and TypeError is raised.
format_release ==
  /\ pc = "format_release"
  /\ IF release_info = None
       THEN Raise("TypeError")
       ELSE pc' = "check_supported" /\ UNCHANGED raised
  /\ UNCHANGED <<SUDO_METHOD, release_info, warned, log, calls, buildvars>>

\* if release_info not in SUPPORTED_DISTROS: logger.warning(...); then the
\* choice of the package list.
check_supported ==
  /\ pc = "check_supported"
  /\ warned' = (release_info \notin SUPPORTED_DISTROS)
  /\ pc' = "apt_update"
  /\ UNCHANGED <<SUDO_METHOD, release_info, log, raised, calls, buildvars>>

\* sudo() that does not keep the method it found.
sudo_forgetful(at, name, arg, after) ==
  /\ pc = at
  /\ \E found \in BOOLEAN, ok \in BOOLEAN :
       LET probe == SUDO_METHOD = "auto"
           method == IF probe THEN (IF found THEN "sudo" ELSE "su") ELSE SUDO_METHOD
       IN /\ UNCHANGED SUDO_METHOD
          /\ log' = log \o (IF probe THEN <<Cmd("which sudo", "", found)>> ELSE <<>>)
                        \o <<Cmd(Wrapper(method) \o name, arg, ok)>>
          /\ IF check_call(ok)
               THEN pc' = after /\ UNCHANGED raised
               ELSE Raise("CalledProcessError")
  /\ UNCHANGED <<release_info, warned, calls, buildvars>>

\* sudo(*command): with 'auto' the method is probed by run('which', 'sudo')
\* inside try/except and stored in the global; the command is then run
\* behind the wrapper of the method.
sudo(at, name, arg, after) ==
  /\ pc = at
  /\ \E found \in BOOLEAN, ok \in BOOLEAN :
       LET probe == SUDO_METHOD = "auto"
           method == IF probe THEN (IF found THEN "sudo" ELSE "su") ELSE SUDO_METHOD
       IN /\ SUDO_METHOD' = method
          /\ log' = log \o (IF probe THEN <<Cmd("which sudo", "", found)>> ELSE <<>>)
                        \o <<Cmd(Wrapper(method) \o name, arg, ok)>>
          /\ IF check_call(ok)
               THEN pc' = after /\ UNCHANGED raised
               ELSE Raise("CalledProcessError")
  /\ UNCHANGED <<release_info, warned, calls, buildvars>>

\* sudo('apt-get', 'update'); sudo('apt-get', 'install', *packages)
apt_get_update == sudo("apt_update", "apt-get update", "", "apt_install")
apt_get_install == sudo("apt_install", "apt-get install", packages, "done")

NextPkg ==
  install_packages \/ format_release \/ check_supported \/ apt_get_update \/ apt_get_install

SpecPkg == InitPkg /\ [][NextPkg]_vars

\* ---- what the claims are stated in -----------------------------------------
\* The target path as the running (or last) reconciler call found it.
EntryValid == has_marker(entry.dir, Marker(call.comp))
EntryInvalid == exists(entry.dir) /\ ~has_marker(entry.dir, Marker(call.comp))
EntryAbsent == ~exists(entry.dir)

\* The commands that make a fresh copy, that refresh one in place, and the
\* three of select_git_branch.
FreshCmds == {"svn checkout", "git clone"}
SelectCmds == <<"git fetch", "git checkout --force", "git reset --hard">>

\* The positions of the log that hold one of the commands in names.
Issued(names) == {i \in 1..Len(log) : log[i].cmd \in names}

\* The first operation of the call was a rename that succeeded and directory
\* d is what <target>.<timestamp> holds.
MovedAside(d) ==
  /\ log # <<>> /\ log[1].cmd = "os.rename" /\ log[1].ok
  /\ \E t \in 0..MaxTime : ToString(t) = log[1].arg /\ aside[call.comp][t] = d

\* C1 (as stated): with a valid checkout at the target path and update false,
\* a reconciler call issues no command, renames nothing and leaves the
\* directory and its siblings as they were.
C1_LeavesCheckoutAsIs ==
  (pc # "idle" /\ EntryValid /\ ~call.update) =>
     /\ log = <<>>
     /\ fs[call.comp] = entry.dir
     /\ aside[call.comp] = entry.aside

\* C1 (amended): with a valid checkout at the target path and update false,
\* the call never updates in place: the first thing it does is rename the
\* directory to <target>.<timestamp>; when the rename succeeds the old
\* checkout is under that name unchanged and the next command is the fresh
\* clone/checkout; a call that returns without error leaves a fresh checkout
\* at the requested revision at the target path.
C1_MovesCheckoutAside ==
  (pc # "idle" /\ EntryValid /\ ~call.update) =>
     /\ pc \in {"download", "rename"} \/ log # <<>>
     /\ log # <<>> => log[1].cmd = "os.rename"
     /\ Issued({"svn update"}) = {}
     /\ (log # <<>> /\ log[1].ok) =>
          /\ MovedAside(entry.dir)
          /\ Len(log) >= 2 => log[2].cmd \in FreshCmds
     /\ pc = "done" =>
          /\ Len(log) >= 2
          /\ AtRequested(call.comp, call.stable, fs[call.comp])
          /\ fs[call.comp].files = "tree"

\* A locally modified valid checkout was moved aside by a call with update
\* false that returned without error.
C1_Witness ==
  /\ pc = "done" /\ EntryValid /\ ~call.update
  /\ entry.dir.files = "modified"
  /\ MovedAside(entry.dir)

\* C2 (as stated): after a reconciler call with update allowed that returns
\* without error, the target directory exists, holds the marker of the
\* expected tool and is positioned at the revision this call asked for.
C2_AtRequestedAfterSuccess ==
  (pc = "done" /\ call.update) =>
     AtRequested(call.comp, call.stable, fs[call.comp])

\* C3: when the target directory exists without the expected marker, a call
\* that returns without error has renamed it to <target>.<timestamp> with
\* its content unchanged (the only rename of the call) and then made a fresh
\* checkout at the original path, which is valid and at the requested
\* revision.
C3_InvalidIsRelocated ==
  (pc = "done" /\ EntryInvalid) =>
     /\ MovedAside(entry.dir)
     /\ Issued({"os.rename"}) = {1}
     /\ Len(log) >= 2 /\ log[2].cmd \in FreshCmds /\ log[2].ok
     /\ AtRequested(call.comp, call.stable, fs[call.comp])
     /\ fs[call.comp].files = "tree"

\* A plain directory with unrelated files was relocated by a call with update
\* allowed, and a fresh checkout stands at the original path.
C3_Witness ==
  /\ pc = "done" /\ call.update
  /\ entry.dir = PlainDir("user")
  /\ MovedAside(PlainDir("user"))
  /\ has_marker(fs[call.comp], Marker(call.comp))

\* C4 (as stated): no step of any reconciler call changes a directory that
\* stands under a timestamped name: once <target>.<t> exists it keeps its
\* content in every later state.
C4_MovedAsideKept ==
  [][\A c \in Comps : \A t \in 0..MaxTime :
       exists(aside[c][t]) => aside'[c][t] = aside[c][t]]_vars

\* C5 (as stated): when the target directory exists without the expected
\* marker, the relocation succeeds whatever siblings exist: once the call is
\* past its rename, the rename is the first entry of the log and succeeded.
C5_RelocationSucceeds ==
  (pc \notin {"idle", "download", "rename"} /\ EntryInvalid) =>
     /\ log # <<>> /\ log[1].cmd = "os.rename" /\ log[1].ok
     /\ raised # "OSError"

\* C6 (as stated): with a valid checkout at the target path and update true,
\* a call that returns without error has renamed nothing and made no fresh
\* clone/checkout, started by fetching (svn update, git fetch), force-selected
\* the requested ref (git), and left the directory at the requested revision.
C6_RefreshInPlace ==
  (pc = "done" /\ EntryValid /\ call.update) =>
     /\ Issued({"os.rename"} \cup FreshCmds) = {}
     /\ log # <<>> /\ log[1].cmd \in {"svn update", "git fetch"}
     /\ call.comp \in GitComps =>
          \E i \in 1..Len(log) : /\ log[i].cmd = "git checkout --force"
                                 /\ log[i].arg = git_branch(call.comp, call.stable)
     /\ AtRequested(call.comp, call.stable, fs[call.comp])

\* C7: in a call of a git reconciler the commands of select_git_branch are
\* issued in the order fetch, checkout --force <requested ref>, reset --hard,
\* each at most once; a command that fails is the last one issued and the
\* call has failed; a call that returned without error issued all three.
C7_SelectSequence ==
  LET IsSelect(e) == e.cmd \in {SelectCmds[k] : k \in 1..3}
      sel == SelectSeq(log, IsSelect)
  IN (call.comp \in GitComps /\ pc # "idle") =>
       /\ Len(sel) <= 3
       /\ \A i \in 1..Len(sel) :
            /\ sel[i].cmd = SelectCmds[i]
            /\ i < Len(sel) => sel[i].ok
            /\ i = 2 => sel[i].arg = git_branch(call.comp, call.stable)
       /\ \A i \in 1..Len(log) : ~log[i].ok => (i = Len(log) /\ pc = "failed")
       /\ pc = "done" => (Len(sel) = 3 /\ sel[3].ok)
       /\ pc = "failed" => (log # <<>> /\ ~log[Len(log)].ok)

\* After a fresh clone, fetch succeeded and the forced checkout failed: the
\* reset was not issued and the call failed.
C7_Witness ==
  /\ pc = "failed" /\ Len(log) = 3
  /\ log[1].cmd = "git clone" /\ log[1].ok
  /\ log[2].cmd = "git fetch" /\ log[2].ok
  /\ log[3].cmd = "git checkout --force" /\ ~log[3].ok

\* C8: when the target directory does not exist, the first operation of the
\* call is the fresh clone/checkout (PLIB: at the requested revision), nothing
\* is renamed or updated in place, and a call that returns without error
\* leaves a checkout with the expected marker at the requested revision.
C8_AbsentIsCloned ==
  (pc \notin {"idle", "download"} /\ EntryAbsent) =>
     /\ pc \in {"checkout", "clone"} \/ log # <<>>
     /\ log # <<>> =>
          /\ log[1].cmd = (IF call.comp \in SvnComps THEN "svn checkout" ELSE "git clone")
          /\ call.comp = "plib" => log[1].arg = plib_revision(call.stable)
     /\ Issued({"os.rename", "svn update"}) = {}
     /\ Cardinality(Issued(FreshCmds)) <= 1
     /\ pc = "done" =>
          /\ AtRequested(call.comp, call.stable, fs[call.comp])
          /\ fs[call.comp].files = "tree"

\* PLIB was checked out into an absent directory at the stable revision.
C8_Witness ==
  /\ pc = "done" /\ EntryAbsent
  /\ call.comp = "plib" /\ call.stable
  /\ fs["plib"].pos = PLIB_STABLE_REVISION
  /\ Len(log) = 1

\* C9: in a run of __main__, an operation that failed is the last one ever
\* issued, and the run has ended with the exception it raised
\* (CalledProcessError for an external command).
C9_FirstFailureStops ==
  \A i \in 1..Len(log) :
     ~log[i].ok =>
        /\ i = Len(log)
        /\ pc = "failed"
        /\ raised = (IF log[i].cmd = "os.rename" THEN "OSError" ELSE "CalledProcessError")

\* The compile step of OpenSceneGraph failed and ended the run.
C9_Witness ==
  /\ pc = "failed" /\ Len(log) > 1
  /\ log[Len(log)].comp = "osg" /\ log[Len(log)].cmd = "make" /\ ~log[Len(log)].ok

\* The order of the components a run is to keep.
ComponentOrder == <<"plib", "osg", "openrti", "simgear", "fgfs">>
Rank(c) ==
  CASE c = "plib" -> 1 [] c = "osg" -> 2 [] c = "openrti" -> 3
    [] c = "simgear" -> 4 [] c = "fgfs" -> 5

\* C10: in a run of __main__, the operations of the components do not
\* interleave (the log is sorted by component, in the order PLIB,
\* OpenSceneGraph, OpenRTI, SimGear, FlightGear), and the first operation of a
\* component, hence every one, comes after the successful make install of
\* each earlier component; the function running is that of the last
\* component that issued anything.
C10_ComponentsInOrder ==
  /\ \A i \in 1..(Len(log) - 1) : Rank(log[i].comp) <= Rank(log[i + 1].comp)
  /\ \A i \in 1..Len(log) :
       (i = 1 \/ log[i - 1].comp # log[i].comp) =>
          \A k \in 1..(Rank(log[i].comp) - 1) :
             \E j \in 1..(i - 1) :
                /\ log[j].comp = ComponentOrder[k]
                /\ log[j].cmd = "make install" /\ log[j].ok
  /\ (pc \notin {"failed", "exit"} /\ log # <<>>) =>
       Rank(log[Len(log)].comp) <= Rank(call.comp)

\* The run reached the install step of FlightGear, the last component.
C10_Witness ==
  \E i \in 1..Len(log) :
     log[i].comp = "fgfs" /\ log[i].cmd = "make install" /\ log[i].ok

\* Every operation issued so far succeeded.
AllSucceeded == \A i \in 1..Len(log) : log[i].ok

\* The install step of component c succeeded.
Installed(c) ==
  \E i \in 1..Len(log) : log[i].comp = c /\ log[i].cmd = "make install" /\ log[i].ok

\* C11: a run of __main__ in which every external command succeeded and that
\* built and installed FlightGear has ended only after download_fgdata
\* reconciled <install_dir>/fgdata: the reconciler issued its commands and
\* the data directory holds the requested revision.
C11_DataBundleFollows ==
  (pc \in {"failed", "exit"} /\ AllSucceeded /\ Installed("fgfs")) =>
     /\ \E i \in 1..Len(log) : log[i].comp = "fgdata"
     /\ AtRequested("fgdata", cfg.stable, fs["fgdata"])

\* Every external command of the running call succeeded so far (os.rename is
\* a system call of the script, no external command).
CommandsSucceeded == \A i \in 1..Len(log) : log[i].cmd # "os.rename" => log[i].ok

\* C12: a reconciler call that repeats, with update allowed, a call aborted
\* by a failing external command, and whose own external commands all
\* succeed, returns without error and leaves a valid checkout at the
\* requested revision.
C12_RerunRepairs ==
  (/\ entry.prev.raised = "CalledProcessError"
   /\ pc \in {"done", "failed"} /\ CommandsSucceeded) =>
     /\ pc = "done"
     /\ has_marker(fs[call.comp], Marker(call.comp))
     /\ AtRequested(call.comp, call.stable, fs[call.comp])

\* The running call repeats a call that returned without error, both with
\* update allowed and the same revision.
SecondOfTwo ==
  /\ entry.prev.status = "done" /\ entry.prev.update
  /\ entry.prev.stable = call.stable /\ call.update

\* C13: when a reconciler call with update allowed repeats a successful one
\* with the same revision and returns, the target directory, its revision
\* and the moved-aside siblings are those the first call left; it refreshed
\* in place: no rename and no fresh clone or checkout was issued.
C13_SecondCallChangesNothing ==
  (SecondOfTwo /\ pc = "done") =>
     /\ fs[call.comp] = entry.dir
     /\ aside[call.comp] = entry.aside
     /\ Issued({"os.rename"} \cup FreshCmds) = {}
     /\ log # <<>>

\* SimGear was refreshed in place by the second of two successful calls, the
\* first of which had moved an invalid directory aside and cloned.
C13_Witness ==
  /\ SecondOfTwo /\ pc = "done" /\ call.comp = "simgear"
  /\ \E t \in 0..MaxTime : entry.aside[t] = PlainDir("user")
  /\ Issued({"git fetch"}) # {}

\* C20: within one reconciler call, a fresh clone or checkout is about to be
\* issued only while the target path does not exist; at most one rename and
\* at most one fresh clone or checkout are issued; and a rename that
\* succeeded is followed at once by the fresh clone or checkout, never by an
\* update in place.
C20_FreshOnlyIntoAbsent ==
  /\ pc \in {"checkout", "clone"} => ~exists(fs[call.comp])
  /\ Cardinality(Issued({"os.rename"})) <= 1
  /\ Cardinality(Issued(FreshCmds)) <= 1
  /\ \A i \in Issued({"os.rename"}) :
       log[i].ok =>
          IF i = Len(log) THEN pc \in {"checkout", "clone"}
                          ELSE log[i + 1].cmd \in FreshCmds

\* OpenSceneGraph's directory was renamed and the checkout that followed was
\* issued into the path the rename had freed.
C20_Witness ==
  /\ call.comp = "osg" /\ Len(log) = 2
  /\ log[1].cmd = "os.rename" /\ log[1].ok
  /\ log[2].cmd = "svn checkout"
  /\ exists(entry.dir)

\* The operations a reconciler issues, and the ones that end a successful
\* reconciliation.
ReconcilerCmds ==
  {"os.rename", "svn update", "svn checkout", "git clone",
   "git fetch", "git checkout --force", "git reset --hard"}
LastOfReconciler == {"svn update", "svn checkout", "git reset --hard"}

\* The configure step of component c, and the cycle its build function is to
\* run after the reconciler.
ConfigureCmds(c) == IF c = "plib" THEN <<"./autogen.sh", "configure">> ELSE <<"cmake">>
Cycle(c, reconf) ==
  (IF reconf THEN ConfigureCmds(c) ELSE <<>>) \o <<"make", "make install">>

\* C14: a build function calls its reconciler once; the build commands come
\* after the operations of the reconciler, which all succeeded and ended with
\* the reconciler's last command; they are, in order, the configure step (left
\* out when reconfigure is false), make and make install, each issued only
\* after success of the one before; and a build function that has returned
\* issued them all.
C14_OneCycleAfterReconcile ==
  LET c == call.comp
      n == Cardinality(Issued(ReconcilerCmds))
      cycle == Cycle(c, cfg.reconfigure)
  IN /\ calls <= 1
     /\ \A i \in 1..n : log[i].cmd \in ReconcilerCmds
     /\ Len(log) - n <= Len(cycle)
     /\ \A i \in (n + 1)..Len(log) :
          /\ log[i].cmd = cycle[i - n]
          /\ \A j \in 1..(i - 1) : log[j].ok
          /\ n > 0 /\ log[n].cmd \in LastOfReconciler
     /\ pc = "done" => (calls = 1 /\ Len(log) = n + Len(cycle) /\ AllSucceeded)

\* build_simgear, called with reconfigure false, returned: it ran make and
\* make install after its reconciler and did not run cmake.
C14_Witness ==
  /\ pc = "done" /\ call.comp = "simgear" /\ ~cfg.reconfigure
  /\ Installed("simgear") /\ Issued({"cmake"}) = {}

\* C15: when cmake is about to be invoked, no CMakeCache.txt is left in the
\* source directory and none in the build directory, where cmake runs.
C15_NoCacheAtConfigure ==
  pc = "cmake" => (~cache[call.comp].src /\ ~cache[call.comp].build)

\* C16: once build_fgfs has got past a successful make install it has
\* returned with the three launcher stubs written; and no stub is written
\* while make install has not succeeded.
C16_StubsAfterInstall ==
  call.comp = "fgfs" =>
     /\ (Installed("fgfs") /\ pc # "stubs") =>
          (pc = "done" /\ \A f \in Stubs : inst.stubs[f] = "written")
     /\ ~Installed("fgfs") => inst.stubs = NoStubs

\* C17: the reconciler of a build function runs with the update flag the
\* build function was given; hence with update false a source directory that
\* exists is renamed before any command is issued.
C17_UpdateFlagHandedOn ==
  calls > 0 =>
     /\ call.update = cfg.update
     /\ (~cfg.update /\ exists(entry.dir) /\ log # <<>>) => log[1].cmd = "os.rename"

\* A step that is a call of sudo().
SudoCall == pc \in {"apt_update", "apt_install"} /\ pc' # pc

\* C18: a sudo call made while the method is 'auto' probes with 'which sudo'
\* and fixes the method to 'sudo' (found) or 'su' (not found); a method other
\* than 'auto' is changed by no step, and a sudo call made under it does not
\* probe.
C18_MethodFixedOnce ==
  [][/\ (SUDO_METHOD = "auto" /\ SudoCall) =>
          /\ Len(log') = Len(log) + 2
          /\ log'[Len(log) + 1].cmd = "which sudo"
          /\ SUDO_METHOD' = (IF log'[Len(log) + 1].ok THEN "sudo" ELSE "su")
     /\ SUDO_METHOD # "auto" =>
          /\ SUDO_METHOD' = SUDO_METHOD
          /\ SudoCall => (Len(log') = Len(log) + 1 /\ log'[Len(log')].cmd # "which sudo")
    ]_vars

\* install_packages returned after a first sudo call that probed, found no
\* sudo and chose 'su', and a second sudo call that ran under 'su' at once.
C18_Witness ==
  /\ pc = "done" /\ SUDO_METHOD = "su" /\ Len(log) = 3
  /\ log[1].cmd = "which sudo" /\ ~log[1].ok
  /\ log[2].cmd = "su -c apt-get update"
  /\ log[3].cmd = "su -c apt-get install"

\* C19: when the platform identify_distro returned is not in the supported
\* list (None included), install_packages logs the warning and goes on to the
\* package manager: it ends only by returning after apt-get update and
\* apt-get install, or by the failure of one of its commands.
C19_UnsupportedOnlyWarns ==
  (/\ calls > 0 /\ pc \notin {"format_release", "check_supported"}
   /\ release_info \notin SUPPORTED_DISTROS) =>
     /\ warned
     /\ pc = "failed" => (log # <<>> /\ ~log[Len(log)].ok)
     /\ pc = "done" =>
          /\ Len(log) >= 2
          /\ log[Len(log) - 1].cmd = Wrapper(SUDO_METHOD) \o "apt-get update"
          /\ log[Len(log)].cmd = Wrapper(SUDO_METHOD) \o "apt-get install"
          /\ log[Len(log) - 1].ok /\ log[Len(log)].ok

\* C21: once the reconciler of a build function has returned (the build
\* function is at its reconfigure test), once the build function has
\* returned, and once either was aborted by a failure, the working
\* directory of the process is the one the build function was entered in.
C21_CwdRestored ==
  (calls > 0 /\ pc \in {"reconfigure", "done", "failed"}) => cwd = entry.cwd

\* build_openrti, entered in /home/user, was aborted by a failing make inside
\* its chdir block, after select_git_branch and the cmake block had returned,
\* and the process is in /home/user.
C21_Witness ==
  /\ pc = "failed" /\ raised = "CalledProcessError" /\ call.comp = "openrti"
  /\ log[Len(log)].cmd = "make" /\ Issued({"cmake"}) # {}
  /\ entry.cwd = "/home/user" /\ cwd = "/home/user"

====
